---- MODULE Spec2Model ----
(***************************************************************************)
(* Model of the self-healing build loop (vscode-extension/src/buildLoop.ts)*)
(* and of the adaptive pattern store "the nucleus" (dynamicPatterns.ts).   *)
(*                                                                         *)
(* Strings are modelled as sequences of word tokens: substring containment *)
(* is containment of a contiguous run of tokens, toLowerCase is a map over *)
(* the tokens, and a length in characters is the sum of the token lengths  *)
(* plus the separating blanks.  Confidence is kept in hundredths (0.7 is   *)
(* 70, the nudges are +5 and -10).                                         *)
(***************************************************************************)
EXTENDS Integers, Sequences, FiniteSets, TLC

(***************************************************************************)
(* Bounds of the model                                                     *)
(***************************************************************************)
MaxUses == 2
MaxClock == 1
MaxAttemptsBound == 3

(***************************************************************************)
(* Text helpers                                                            *)
(***************************************************************************)
Min(a, b) == IF a < b THEN a ELSE b

Max(a, b) == IF a > b THEN a ELSE b

Range(s) == { s[i] : i \in 1..Len(s) }

\* String.prototype.toLowerCase on one token
Lower(w) ==
  CASE w = "Cannot" -> "cannot"
    [] w = "React" -> "react"
    [] w = "Type" -> "type"
    [] w = "Object" -> "object"
    [] w = "Xlong" -> "xlong"
    [] w = "className" -> "classname"
    [] OTHER -> w

toLowerCase(text) == [i \in 1..Len(text) |-> Lower(text[i])]

\* number of characters of a (lower-cased) token
TokenLen(w) ==
  CASE w \in {"is", "to", "be", "ts"} -> 2
    [] w \in {"new", "npm", "not"} -> 3
    [] w \in {"some", "find", "name", "type", "null", "tail"} -> 4
    [] w \in {"react", "error", "build", "other"} -> 5
    [] w \in {"cannot", "unseen", "script", "object", "string", "module"} -> 6
    [] w \in {"failure", "missing"} -> 7
    [] w \in {"possibly"} -> 8
    [] w \in {"undefined", "classname"} -> 9
    [] w \in {"assignable"} -> 10
    [] w = "xlong" -> 200
    [] OTHER -> 4

RECURSIVE CharLen(_)
\* String.prototype.length of a text: tokens joined by single blanks
CharLen(text) ==
  IF Len(text) = 0 THEN 0
  ELSE IF Len(text) = 1 THEN TokenLen(Lower(text[1]))
  ELSE CharLen(SubSeq(text, 1, Len(text) - 1)) + 1 + TokenLen(Lower(text[Len(text)]))

RECURSIVE substring(_, _)
\* String.prototype.substring(0, n); the vocabulary puts every cut on a token boundary
substring(text, n) ==
  IF CharLen(text) <= n THEN text
  ELSE substring(SubSeq(text, 1, Len(text) - 1), n)

\* String.prototype.includes
includes(text, part) ==
  \E i \in 0..(Len(text) - Len(part)) : SubSeq(text, i + 1, i + Len(part)) = part

stopWords ==
  {"the", "a", "an", "is", "are", "was", "were", "be", "been", "being", "have", "has",
   "had", "do", "does", "did", "will", "would", "could", "should", "may", "might", "must",
   "shall", "can", "need", "to", "of", "in", "for", "on", "with", "at", "by", "from", "as",
   "into", "through", "during", "before", "after", "above", "below", "between", "under",
   "again", "further", "then", "once", "and", "but", "or", "nor", "so", "yet", "both",
   "either", "neither", "not", "only", "own", "same", "than", "too", "very", "just"}

MaxKeywords == 10

SubstringLimit == 200

KeepWord(w) == TokenLen(w) > 2 /\ w \notin stopWords

\* a keyword is itself a string, i.e. a sequence of tokens (builtin keywords may hold two words)
extractKeywords(text) ==
  LET words == SelectSeq(toLowerCase(text), KeepWord)
  IN  [i \in 1..Min(MaxKeywords, Len(words)) |-> <<words[i]>>]

\* intersection / max(size) as the fraction <<numerator, denominator>>
similarity(arr1, arr2) ==
  IF Len(arr1) = 0 \/ Len(arr2) = 0 THEN <<0, 1>>
  ELSE LET set1 == { toLowerCase(k) : k \in Range(arr1) }
           set2 == { toLowerCase(k) : k \in Range(arr2) }
       IN  <<Cardinality(set1 \cap set2), Max(Cardinality(set1), Cardinality(set2))>>

\* fraction > 0.7
SimilarityThresholdNum == 7

SimilarityThresholdDen == 10

\* the threshold read as 0.8
AboveThreshold_Stricter(frac) == frac[1] * 10 > 8 * frac[2]

AboveThreshold(frac) == frac[1] * SimilarityThresholdDen > SimilarityThresholdNum * frac[2]

(***************************************************************************)
(* Pattern store (DynamicPatterns)                                         *)
(***************************************************************************)
Instances == {"chat", "loop"}

ConfidenceCap == 100

ConfidenceFloor == 10

SuccessNudge == 5

FailureNudge == 10

\* a learned pattern starting as confident as a builtin one
LearnedConfidence_AsBuiltin == 70 + 25

LearnedConfidence == 70

\* fix details that name an action the nucleus can carry out
ManualFix_AsConfigChange(description) ==
  [type |-> "config-change", file |-> "package.json", search |-> "undefined",
   replace |-> "undefined", description |-> description]

ManualFix(description) ==
  [type |-> "manual", file |-> "undefined", search |-> "undefined",
   replace |-> "undefined", description |-> description]

\* the builtin error-fix patterns, stamped with the time of construction
getDefaultPatterns(t) ==
  << [id |-> <<"missing-react-import", 0>>,
      errorPattern |-> <<"Cannot", "find", "name", "React">>,
      errorKeywords |-> << <<"React">>, <<"cannot", "find">>, <<"name">> >>,
      fix |-> [type |-> "file-edit", file |-> "src/*.tsx", search |-> "",
               replace |-> "import * as React", description |-> "Add missing React import"],
      confidence |-> 95, successCount |-> 10, failureCount |-> 0,
      lastUsed |-> t, source |-> "builtin"],
     [id |-> <<"classname-type-error", 0>>,
      errorPattern |-> <<"Type", "string", "undefined", "is", "not", "assignable">>,
      errorKeywords |-> << <<"className">>, <<"undefined">>, <<"not", "assignable">> >>,
      fix |-> [type |-> "file-edit", file |-> "undefined", search |-> "className={props.class}",
               replace |-> "className={props.class ?? }",
               description |-> "Add nullish coalescing for className"],
      confidence |-> 90, successCount |-> 5, failureCount |-> 1,
      lastUsed |-> t, source |-> "builtin"],
     [id |-> <<"missing-build-script", 0>>,
      errorPattern |-> <<"missing", "script", "build">>,
      errorKeywords |-> << <<"missing">>, <<"script">>, <<"build">> >>,
      fix |-> [type |-> "config-change", file |-> "package.json", search |-> "undefined",
               replace |-> "undefined",
               description |-> "Add missing build scripts to package.json"],
      confidence |-> 95, successCount |-> 8, failureCount |-> 0,
      lastUsed |-> t, source |-> "builtin"],
     [id |-> <<"strict-null-checks", 0>>,
      errorPattern |-> <<"Object", "is", "possibly">>,
      errorKeywords |-> << <<"possibly">>, <<"undefined">>, <<"null">> >>,
      fix |-> ManualFix("Add null safety checks"),
      confidence |-> 70, successCount |-> 3, failureCount |-> 2,
      lastUsed |-> t, source |-> "builtin"] >>

\* Array.prototype.find over the indices found to satisfy the test: the first one, 0 when
\* there is none
FindFirst(found) ==
  IF found = {} THEN 0 ELSE CHOOSE i \in found : \A j \in found : i <= j

\* the test of learnErrorFix's find: identical signature or similar keywords
Similar(p, errorText) ==
  \/ p.errorPattern = errorText
  \/ AboveThreshold(similarity(p.errorKeywords, extractKeywords(errorText)))

\* a novel error is recorded whatever the outcome of its fix was
appendLearned_AnyOutcome(errorFixes, pattern, success) == Append(errorFixes, pattern)

\* learnErrorFix's "else if (success)": only a fix that worked becomes a new pattern
appendLearned(errorFixes, pattern, success) ==
  IF success THEN Append(errorFixes, pattern) ELSE errorFixes

\* DynamicPatterns.learnErrorFix: the new value of patterns.errorFixes
learnErrorFix(errorFixes, errorText, fixDescription, fixDetails, success, t) ==
  LET keywords == extractKeywords(errorText)
      Test(p) == p.errorPattern = errorText
                   \/ AboveThreshold(similarity(p.errorKeywords, keywords))
      existing == FindFirst({ i \in 1..Len(errorFixes) : Test(errorFixes[i]) })
  IN  IF existing # 0
      THEN IF success
           THEN [errorFixes EXCEPT ![existing].successCount = @ + 1,
                                   ![existing].confidence = Min(ConfidenceCap, @ + SuccessNudge),
                                   ![existing].lastUsed = t]
           ELSE [errorFixes EXCEPT ![existing].failureCount = @ + 1,
                                   ![existing].confidence = Max(ConfidenceFloor, @ - FailureNudge),
                                   ![existing].lastUsed = t]
      ELSE appendLearned(errorFixes,
                  [id |-> <<"learned", t>>,
                   errorPattern |-> substring(errorText, SubstringLimit),
                   errorKeywords |-> keywords,
                   fix |-> [type |-> IF fixDetails.type = "undefined" THEN "manual"
                                     ELSE fixDetails.type,
                            file |-> fixDetails.file,
                            search |-> fixDetails.search,
                            replace |-> fixDetails.replace,
                            description |-> fixDescription],
                   confidence |-> LearnedConfidence,
                   successCount |-> 1, failureCount |-> 0,
                   lastUsed |-> t, source |-> "learned"],
                  success)

\* recordFixUsage without the floor on a failure
recordFixUsage_NoFloor(errorFixes, patternId, success, t) ==
  LET Test(p) == p.id = patternId
      pattern == FindFirst({ i \in 1..Len(errorFixes) : Test(errorFixes[i]) })
  IN  IF pattern # 0
      THEN IF success
           THEN [errorFixes EXCEPT ![pattern].successCount = @ + 1,
                                   ![pattern].confidence = Min(ConfidenceCap, @ + SuccessNudge),
                                   ![pattern].lastUsed = t]
           ELSE [errorFixes EXCEPT ![pattern].failureCount = @ + 1,
                                   ![pattern].confidence = @ - FailureNudge,
                                   ![pattern].lastUsed = t]
      ELSE errorFixes

\* DynamicPatterns.recordFixUsage: the new value of patterns.errorFixes
recordFixUsage(errorFixes, patternId, success, t) ==
  LET Test(p) == p.id = patternId
      pattern == FindFirst({ i \in 1..Len(errorFixes) : Test(errorFixes[i]) })
  IN  IF pattern # 0
      THEN IF success
           THEN [errorFixes EXCEPT ![pattern].successCount = @ + 1,
                                   ![pattern].confidence = Min(ConfidenceCap, @ + SuccessNudge),
                                   ![pattern].lastUsed = t]
           ELSE [errorFixes EXCEPT ![pattern].failureCount = @ + 1,
                                   ![pattern].confidence = Max(ConfidenceFloor, @ - FailureNudge),
                                   ![pattern].lastUsed = t]
      ELSE errorFixes

\* whether recordFixUsage finds the pattern (and so marks the store dirty and saves)
KnownId(errorFixes, patternId) == \E i \in 1..Len(errorFixes) : errorFixes[i].id = patternId

\* the score getMatchingErrorFixes gives a pattern, times 1000
Score(p, errorText) ==
  LET errorLower == toLowerCase(errorText)
      hits == { k \in 1..Len(p.errorKeywords) : includes(errorLower, toLowerCase(p.errorKeywords[k])) }
      raw == (IF includes(errorText, p.errorPattern) THEN 10 ELSE 0) + 2 * Cardinality(hits)
  IN  raw * p.confidence * (10 + p.successCount)

RECURSIVE SortDescending_Unstable(_, _)
\* a sort that puts the later of two equal scores first
SortDescending_Unstable(todo, score) ==
  IF todo = {} THEN <<>>
  ELSE LET best == CHOOSE i \in todo :
                     \A j \in todo : score[i] > score[j] \/ (score[i] = score[j] /\ i >= j)
       IN  <<best>> \o SortDescending_Unstable(todo \ {best}, score)

RECURSIVE SortDescending(_, _)
\* Array.prototype.sort((a, b) => b.score - a.score) on the indices in todo: stable
SortDescending(todo, score) ==
  IF todo = {} THEN <<>>
  ELSE LET best == CHOOSE i \in todo :
                     \A j \in todo : score[i] > score[j] \/ (score[i] = score[j] /\ i <= j)
       IN  <<best>> \o SortDescending(todo \ {best}, score)

\* every pattern is returned, whatever its score
getMatchingErrorFixes_Unfiltered(errorFixes, errorText) ==
  LET score == [i \in 1..Len(errorFixes) |-> Score(errorFixes[i], errorText)]
  IN  SortDescending(1..Len(errorFixes), score)

\* patterns that have decayed to the floor are left out
getMatchingErrorFixes_SkipsDecayed(errorFixes, errorText) ==
  LET score == [i \in 1..Len(errorFixes) |-> Score(errorFixes[i], errorText)]
  IN  SortDescending({ i \in 1..Len(errorFixes) :
                         score[i] > 0 /\ errorFixes[i].confidence > ConfidenceFloor }, score)

\* DynamicPatterns.getMatchingErrorFixes: the indices of the matching patterns, best first
getMatchingErrorFixes(errorFixes, errorText) ==
  LET score == [i \in 1..Len(errorFixes) |-> Score(errorFixes[i], errorText)]
  IN  SortDescending({ i \in 1..Len(errorFixes) : score[i] > 0 }, score)

(***************************************************************************)
(* The widget folder and the fix strategies (BuildLoop)                    *)
(***************************************************************************)
BuildScripts == {"build", "dev"}

NucleusThreshold == 70

\* a file's content is the sequence of the snippets it holds, in order
\* String.prototype.includes on a file's content
contains(content, text) == \E k \in 1..Len(content) : content[k] = text

\* number of times a snippet stands in a file
Occurrences(content, text) == Cardinality({ k \in 1..Len(content) : content[k] = text })

\* String.prototype.replace(search, replace): the first occurrence only
replaceFirst(content, search, text) ==
  LET first == FindFirst({ k \in 1..Len(content) : content[k] = search })
  IN  IF first = 0 THEN content ELSE [content EXCEPT ![first] = text]

\* a write that adds an edit of the knowledge cache or of the language model
edited(content, text) == IF contains(content, text) THEN content ELSE Append(content, text)

\* a prepend that does not look whether the text is already there
prepend_Unchecked(content, text) == <<TRUE, <<text>> \o content>>

\* the prepend of applyNucleusFix (search === ''): <<applied, content afterwards>>
prepend(content, text) ==
  IF ~contains(content, text) THEN <<TRUE, <<text>> \o content>> ELSE <<FALSE, content>>

\* BuildLoop.applyNucleusFix: <<applied, widget folder afterwards>>
applyNucleusFix(pattern, w) ==
  LET fix == pattern.fix
  IN  CASE fix.type = "file-edit" ->
             IF fix.file # "undefined" /\ fix.search # "undefined" /\ fix.replace # "undefined"
             THEN IF ~w.src THEN <<FALSE, w>>
                  ELSE IF fix.search = "" /\ fix.replace # ""
                  THEN LET res == prepend(w.tsx, fix.replace)
                       IN  <<res[1], [w EXCEPT !.tsx = res[2]]>>
                  ELSE IF fix.search # "" /\ contains(w.tsx, fix.search)
                  THEN <<TRUE, [w EXCEPT !.tsx = replaceFirst(@, fix.search, fix.replace)]>>
                  ELSE <<FALSE, w>>
             ELSE <<FALSE, w>>
        [] fix.type = "config-change" ->
             IF fix.file = "package.json" /\ w.pkg = "ok"
             THEN <<TRUE, [w EXCEPT !.scripts = @ \cup BuildScripts]>>
             ELSE <<FALSE, w>>
        [] OTHER -> <<FALSE, w>>

\* a nucleus step that trusts every matching pattern, whatever its confidence
Confident_Always(pattern) == TRUE

\* the test the nucleus step makes before it tries a matching pattern
Confident(pattern) == pattern.confidence >= NucleusThreshold

RECURSIVE NucleusStrategy(_, _, _, _, _)
\* the nucleus step of analyzeAndFix over the matches still to try:
\* [applied, description, errorFixes, widget, considered]; considered lists, for every
\* pattern the loop came to, its confidence at that moment, whether applyNucleusFix
\* was called for it and what it returned, whether that turn changed the widget or the store,
\* and the pattern as the store held it before and after the turn
NucleusStrategy(matches, k, errorFixes, w, t) ==
  IF k > Len(matches)
  THEN [applied |-> FALSE, description |-> "", errorFixes |-> errorFixes, widget |-> w,
        considered |-> <<>>]
  ELSE LET pattern == errorFixes[matches[k]]
           turn(attempted, applied, w2, errorFixes2) ==
             [id |-> pattern.id, confidence |-> pattern.confidence, attempted |-> attempted,
              applied |-> applied, edited |-> w2 # w, recorded |-> errorFixes2 # errorFixes,
              pattern |-> pattern, after |-> errorFixes2[matches[k]]]
       IN  IF Confident(pattern)
           THEN LET res == applyNucleusFix(pattern, w)
                    errorFixes2 == recordFixUsage(errorFixes, pattern.id, res[1], t)
                IN  IF res[1]
                    THEN [applied |-> TRUE, description |-> pattern.fix.description,
                          errorFixes |-> errorFixes2,
                          widget |-> res[2],
                          considered |-> <<turn(TRUE, TRUE, res[2], errorFixes2)>>]
                    ELSE LET rest == NucleusStrategy(matches, k + 1, errorFixes2, w, t)
                         IN  [rest EXCEPT !.considered = <<turn(TRUE, FALSE, w, errorFixes2)>> \o @]
           ELSE LET rest == NucleusStrategy(matches, k + 1, errorFixes, w, t)
                IN  [rest EXCEPT !.considered = <<turn(FALSE, FALSE, w, errorFixes)>> \o @]

\* BuildLoop.tryPatternFix: [applied, description, widget, threw]; npmOk says whether
\* `npm install <module>` went through
tryPatternFix(errorText, w, npmOk) ==
  LET errorLower == toLowerCase(errorText)
      none == [applied |-> FALSE, description |-> "", widget |-> w, threw |-> FALSE]
  IN  IF /\ includes(errorLower, <<"cannot", "find", "module">>)
         /\ includes(errorText, <<"Cannot", "find", "module">>)
         /\ npmOk
      THEN [none EXCEPT !.applied = TRUE, !.description = "Installed missing module",
                        !.widget = [w EXCEPT !.modules = TRUE]]
      ELSE IF includes(errorLower, <<"cannot", "find", "name", "react">>) /\ w.src
      THEN [none EXCEPT !.applied = TRUE, !.description = "Added missing React imports",
                        !.widget = [w EXCEPT !.tsx = IF contains(@, "import * as React") THEN @
                                                     ELSE <<"import * as React">> \o @]]
      ELSE IF \/ includes(errorLower, <<"object", "is", "possibly", "null">>)
              \/ includes(errorLower, <<"object", "is", "possibly", "undefined">>)
      THEN [none EXCEPT !.description = "Null safety issue requires manual review"]
      ELSE IF includes(errorLower, <<"missing", "script", "build">>) /\ w.pkg # "absent"
      THEN IF w.pkg = "malformed"
           THEN [none EXCEPT !.threw = TRUE]
           ELSE [none EXCEPT !.applied = TRUE,
                             !.description = "Added missing build scripts to package.json",
                             !.widget = [w EXCEPT !.scripts = BuildScripts]]
      ELSE none

\* what the collaborators of one analyzeAndFix call turn out to do: the knowledge
\* cache (a known fix applies, or none does), npm (the install went through or not),
\* and the language model (an edit was applied or not)
External == [known : BOOLEAN, npmOk : BOOLEAN, ai : BOOLEAN]

\* the outcome of analyzeAndFix before any strategy was consulted
NothingTried(errorFixes, w) ==
  [applied |-> FALSE, description |-> <<"", "">>, errorFixes |-> errorFixes, widget |-> w,
   threw |-> FALSE, touched |-> FALSE, consulted |-> <<>>, considered |-> <<>>]

\* one more strategy was consulted
Consulted(s, strategy, applied) ==
  Append(s.consulted, [strategy |-> strategy, applied |-> applied])

\* analyzeAndFix, strategy 1: the patterns of the nucleus
NucleusStep(s, errorText, t) ==
  LET nucleusPatterns == getMatchingErrorFixes(s.errorFixes, errorText)
      nucleus == NucleusStrategy(nucleusPatterns, 1, s.errorFixes, s.widget, t)
  IN  [s EXCEPT !.applied = nucleus.applied,
                !.description = IF nucleus.applied THEN <<"[NUCLEUS]", nucleus.description>>
                                                   ELSE @,
                !.errorFixes = nucleus.errorFixes,
                !.widget = nucleus.widget,
                !.touched = @ \/ nucleus.applied \/ nucleus.errorFixes # s.errorFixes,
                !.consulted = Consulted(s, "nucleus", nucleus.applied),
                !.considered = nucleus.considered]

\* analyzeAndFix, strategy 2: the knowledge cache of known fixes; the fix the cache
\* returns is one filed under the diagnostic text itself (knownFix.errorPattern)
KnowledgeStep(s, errorText, t, ext) ==
  IF ext.known /\ s.widget.src
  THEN [s EXCEPT !.applied = TRUE, !.description = <<"[LEARNED]", "known fix">>,
                 !.errorFixes = learnErrorFix(s.errorFixes, errorText, "known fix",
                                              ManualFix("known fix"), TRUE, t),
                 !.widget = [s.widget EXCEPT !.tsx = edited(@, "edit")],
                 !.touched = TRUE,
                 !.consulted = Consulted(s, "knowledge", TRUE)]
  ELSE [s EXCEPT !.consulted = Consulted(s, "knowledge", FALSE)]

\* analyzeAndFix, strategy 3: the heuristic fixes of tryPatternFix
HeuristicStep(s, errorText, t, ext) ==
  LET patternFix == tryPatternFix(errorText, s.widget, ext.npmOk)
  IN  IF patternFix.threw
      THEN [s EXCEPT !.threw = TRUE, !.consulted = Consulted(s, "heuristic", FALSE)]
      ELSE IF patternFix.applied
      THEN [s EXCEPT !.applied = TRUE,
                     !.description = <<"", patternFix.description>>,
                     !.errorFixes = learnErrorFix(s.errorFixes,
                                                  substring(errorText, SubstringLimit),
                                                  patternFix.description,
                                                  ManualFix(patternFix.description), TRUE, t),
                     !.widget = patternFix.widget,
                     !.touched = TRUE,
                     !.consulted = Consulted(s, "heuristic", TRUE)]
      ELSE [s EXCEPT !.consulted = Consulted(s, "heuristic", FALSE)]

\* analyzeAndFix, strategy 4: the fix the language model generates; its outcome is
\* what analyzeAndFix returns
GenerativeStep(s, ext) ==
  IF ext.ai /\ s.widget.src
  THEN [s EXCEPT !.applied = TRUE, !.description = <<"", "AI fix">>,
                 !.widget = [s.widget EXCEPT !.tsx = edited(@, "edit")],
                 !.consulted = Consulted(s, "generative", TRUE)]
  ELSE [s EXCEPT !.applied = FALSE, !.description = <<"", "no fix">>,
                 !.consulted = Consulted(s, "generative", FALSE)]

\* a chain that goes on to the next strategy although one has applied its fix
Returns_Never(s) == s.threw

\* analyzeAndFix returns what it has as soon as a strategy applied its fix (and is
\* left at once by an error a strategy lets through)
Returns(s) == s.applied \/ s.threw

\* BuildLoop.analyzeAndFix:
\* [applied, description, errorFixes, widget, threw, touched, consulted, considered]
analyzeAndFix(errorText, errorFixes, w, t, ext) ==
  LET s1 == { NucleusStep(s, errorText, t) : s \in {NothingTried(errorFixes, w)} }
      s2 == { IF Returns(s) THEN s ELSE KnowledgeStep(s, errorText, t, ext) : s \in s1 }
      s3 == { IF Returns(s) THEN s ELSE HeuristicStep(s, errorText, t, ext) : s \in s2 }
      s4 == { IF Returns(s) THEN s ELSE GenerativeStep(s, ext) : s \in s3 }
  IN  CHOOSE s \in s4 : TRUE

(***************************************************************************)
(* Inputs                                                                  *)
(***************************************************************************)
TReact == <<"Cannot", "find", "name", "React">>

TScript == <<"npm", "missing", "script", "build">>

TNovel == <<"some", "new", "unseen", "error">>

TNear == <<"some", "new", "unseen", "failure">>

TFar == <<"other", "new", "unseen", "failure">>

TStop == <<"is", "to", "be">>

TLong == <<"Xlong", "tail">>

TTenA == <<"kw0", "kw1", "kw2", "kw3", "kw4", "kw5", "kw6", "kw7", "kw8", "kw9", "kw10">>

TTenB == <<"kw0", "kw1", "kw2", "kw3", "kw4", "kw5", "kw6", "xw7", "xw8", "xw9">>

TNull == <<"Object", "is", "possibly", "null">>

TModule == <<"Cannot", "find", "module", "lodash">>

\* the error texts a client hands to learnErrorFix
ErrorTexts == {TScript, TNovel, TNear, TStop, TLong, TTenA, TTenB}

\* the diagnostic texts a failed generate/build run reports
Diagnostics == {TReact, TScript, TNull, TModule, TNovel}

Descriptions == {"fix X"}

NoId == <<"", 0>>

PatternIds ==
  {<<"strict-null-checks", 0>>, <<"learned", 0>>, <<"no-such-pattern", 0>>}

\* the diagnostic texts a client hands to getMatchingErrorFixes
MatchTexts == {TNovel, TNear, TNull, TStop}

(***************************************************************************)
(* State                                                                   *)
(***************************************************************************)
VARIABLES
  patterns,     \* per DynamicPatterns instance: patterns.errorFixes
  isDirty,      \* per DynamicPatterns instance: the dirty flag
  disk,         \* the patterns file: [exists, content, errorFixes]
  now,          \* the millisecond clock read by Date.now() and new Date()
  calls,        \* number of store calls made so far (bounds the counters)
  last,         \* the store call a client made last: operation, arguments, pattern hit
  pc,           \* where BuildLoop.execute stands: idle, executing, fixing, done
  maxAttempts,  \* options.maxAttempts || 3
  attempt,      \* the loop counter
  fixesApplied, \* descriptions of the fixes applied so far, in order
  cancelled,    \* token.isCancellationRequested
  cancelledAt,  \* where execute stood when the token was set ("never" while unset)
  result,       \* what execute returned
  execCalls,    \* invocations of generator.generate during this execute
  consults,     \* calls of analyzeAndFix during this execute
  errors,       \* result.errors of the attempt that failed last: its diagnostic text
  widget,       \* the widget folder on disk
  chain,        \* the strategies the last analyzeAndFix consulted, in order, and what each reported
  considered,   \* the patterns the nucleus step of the last analyzeAndFix came to, in order
  workFolder    \* options.workFolder on disk: present, absent, or blocked (cannot be created)

storeVars == <<patterns, isDirty, disk, calls, last>>

loopVars ==
  <<pc, maxAttempts, attempt, fixesApplied, cancelled, cancelledAt, result, execCalls, consults,
    errors, widget, chain, considered, workFolder>>

vars == <<patterns, isDirty, disk, now, calls, last, pc, maxAttempts, attempt, fixesApplied,
          cancelled, cancelledAt, result, execCalls, consults, errors, widget, chain, considered,
          workFolder>>

\* a save that only keeps the dirty flag and leaves the flush for later
save_Deferred(i, errorFixes, dirty, written) ==
  /\ isDirty' = [isDirty EXCEPT ![i] = dirty]
  /\ disk' = disk

\* DynamicPatterns.save on instance i, once the dirty flag has the value dirty;
\* written says whether fs.writeFileSync went through
save(i, errorFixes, dirty, written) ==
  IF ~dirty
  THEN /\ isDirty' = [isDirty EXCEPT ![i] = FALSE]
       /\ disk' = disk
  ELSE IF written
  THEN /\ isDirty' = [isDirty EXCEPT ![i] = FALSE]
       /\ disk' = [exists |-> TRUE, content |-> "document", errorFixes |-> errorFixes]
  ELSE /\ isDirty' = [isDirty EXCEPT ![i] = TRUE]
       /\ disk' = disk

\* what a file that exists may hold: a saved document, bytes that cannot be read,
\* text that is no JSON, or JSON without the pattern arrays
FileContents == {"document", "unreadable", "malformed", "incomplete"}

\* the try block of loadPatterns: readFileSync, JSON.parse and the logging of
\* data.errorFixes.length each throw on a file they cannot handle
readDocument(d) ==
  IF d.content = "document" THEN [threw |-> FALSE, data |-> d.errorFixes]
  ELSE [threw |-> TRUE, data |-> <<>>]

\* loadPatterns without the fallback: a file that cannot be read yields no patterns
loadPatterns_NoFallback(d, t) ==
  IF d.exists THEN readDocument(d).data ELSE getDefaultPatterns(t)

\* DynamicPatterns.loadPatterns at construction time t
loadPatterns(d, t) ==
  IF d.exists /\ ~readDocument(d).threw
  THEN readDocument(d).data
  ELSE getDefaultPatterns(t)

RECURSIVE Decay(_, _, _)
\* the store after n failed uses of one pattern
Decay(errorFixes, patternId, n) ==
  IF n = 0 THEN errorFixes
  ELSE Decay(recordFixUsage(errorFixes, patternId, FALSE, 0), patternId, n - 1)

\* the document an earlier session left behind: one builtin pattern used without
\* success six times, and two patterns learned from TFar and TNovel
EarlierSession ==
  LET decayed == Decay(getDefaultPatterns(0), <<"strict-null-checks", 0>>, 6)
      one == learnErrorFix(decayed, TFar, "fix X", ManualFix("fix X"), TRUE, 0)
  IN  learnErrorFix(one, TNovel, "fix X", ManualFix("fix X"), TRUE, 0)

\* the document of earlier sessions in which the build loop learned a pattern from a
\* heuristic fix for TModule and the user then taught the same error twice with /learn
TaughtSession ==
  LET learned == learnErrorFix(getDefaultPatterns(0), TModule, "Installed missing module",
                               ManualFix("Installed missing module"), TRUE, 0)
      once == learnErrorFix(learned, TModule, "fix X", ManualFix("fix X"), TRUE, 0)
  IN  learnErrorFix(once, TModule, "fix X", ManualFix("fix X"), TRUE, 0)

\* what construction may find on disk: no file, an emptied document, the document of
\* an earlier session, or a file that cannot be read as a document
InitDisks ==
  {[exists |-> FALSE, content |-> "document", errorFixes |-> <<>>],
   [exists |-> TRUE, content |-> "document", errorFixes |-> <<>>],
   [exists |-> TRUE, content |-> "document", errorFixes |-> EarlierSession],
   [exists |-> TRUE, content |-> "document", errorFixes |-> TaughtSession]}
  \cup
  [exists : {TRUE}, content : FileContents \ {"document"}, errorFixes : {<<>>}]

DefaultMaxAttempts == 3

\* what the first build may find at options.workFolder: nothing yet (mkdirSync makes
\* the folder, and later attempts find it present), or nothing where mkdirSync fails
\* (a file in the way, no permission)
WorkFolders == {"absent", "blocked"}

NoMessage == [kind |-> "none", n |-> 0, text |-> <<>>]

NoResult ==
  [success |-> FALSE, errors |-> NoMessage, attempts |-> 0, fixesApplied |-> <<>>,
   outputPath |-> "undefined", mpkPath |-> "undefined", threw |-> FALSE]

\* states a generate/build run can leave the widget folder in
NothingWritten == [src |-> FALSE, tsx |-> <<>>, pkg |-> "absent", scripts |-> {}, modules |-> FALSE]

Generated == [src |-> TRUE, tsx |-> <<>>, pkg |-> "ok", scripts |-> BuildScripts, modules |-> TRUE]

WithoutScripts == [src |-> TRUE, tsx |-> <<>>, pkg |-> "ok", scripts |-> {}, modules |-> FALSE]

BrokenManifest == [src |-> TRUE, tsx |-> <<>>, pkg |-> "malformed", scripts |-> {}, modules |-> FALSE]

\* what generator.generate may resolve to: a GenerationResult and the folder it leaves
ExecutorResults(w) ==
  [success : {TRUE}, errors : {<<>>}, outputPath : {"out"}, mpkPath : {"out/dist/w.mpk", "undefined"},
   widget : {Generated}]
  \cup
  [success : {FALSE}, errors : Diagnostics, outputPath : {"out"}, mpkPath : {"undefined"},
   widget : {w, Generated}]
  \cup
  [success : {FALSE}, errors : {TScript}, outputPath : {"out"}, mpkPath : {"undefined"},
   widget : {WithoutScripts, BrokenManifest}]

Init ==
  /\ now = 0
  /\ disk \in InitDisks
  /\ patterns = [i \in Instances |-> loadPatterns(disk, now)]
  /\ isDirty = [i \in Instances |-> FALSE]
  /\ calls = 0
  /\ last = [op |-> "none", text |-> <<>>, id |-> NoId, success |-> FALSE, hit |-> 0,
            matched |-> <<>>]
  /\ pc = "idle"
  /\ maxAttempts = DefaultMaxAttempts
  /\ attempt = 0
  /\ fixesApplied = <<>>
  /\ cancelled = FALSE
  /\ cancelledAt = "never"
  /\ result = NoResult
  /\ execCalls = 0
  /\ consults = 0
  /\ errors = <<>>
  /\ widget = NothingWritten
  /\ chain = <<>>
  /\ considered = <<>>
  /\ workFolder \in WorkFolders

\* the clock advances between two calls of a client
Tick ==
  /\ now < MaxClock
  /\ pc = "idle"
  /\ now' = now + 1
  /\ UNCHANGED <<storeVars, loopVars>>

\* a client calls learnErrorFix(errorText, fixDescription, {type: 'manual'}, success)
LearnCall(i, errorText, fixDescription, success, written) ==
  /\ calls < MaxUses
  /\ LET after == learnErrorFix(patterns[i], errorText, fixDescription,
                                ManualFix(fixDescription), success, now)
     IN  /\ patterns' = [patterns EXCEPT ![i] = after]
         /\ save(i, after, TRUE, written)
  /\ calls' = calls + 1
  /\ last' = [op |-> "learn", text |-> errorText, id |-> NoId, success |-> success,
              hit |-> FindFirst({ k \in 1..Len(patterns[i]) :
                                    Similar(patterns[i][k], errorText) }),
              matched |-> <<>>]
  /\ UNCHANGED <<now, loopVars>>

\* a client calls recordFixUsage(patternId, success)
RecordCall(i, patternId, success, written) ==
  /\ calls < MaxUses
  /\ LET after == recordFixUsage(patterns[i], patternId, success, now)
     IN  /\ patterns' = [patterns EXCEPT ![i] = after]
         /\ IF KnownId(patterns[i], patternId)
            THEN save(i, after, TRUE, written)
            ELSE UNCHANGED <<isDirty, disk>>
  /\ calls' = calls + 1
  /\ last' = [op |-> "record", text |-> <<>>, id |-> patternId, success |-> success,
              hit |-> FindFirst({ k \in 1..Len(patterns[i]) :
                                    patterns[i][k].id = patternId }),
              matched |-> <<>>]
  /\ UNCHANGED <<now, loopVars>>

\* new DynamicPatterns(): the extension is activated anew and the store is loaded
\* from the patterns file
Construct(i) ==
  /\ calls < MaxUses
  /\ pc = "idle"
  /\ patterns' = [patterns EXCEPT ![i] = loadPatterns(disk, now)]
  /\ isDirty' = [isDirty EXCEPT ![i] = FALSE]
  /\ calls' = calls + 1
  /\ last' = [op |-> "load", text |-> <<>>, id |-> NoId, success |-> FALSE, hit |-> 0,
              matched |-> <<>>]
  /\ UNCHANGED <<disk, now, loopVars>>

\* a client calls getMatchingErrorFixes(errorText); matched holds what it returned, as
\* the positions of the returned patterns in patterns.errorFixes
MatchCall(i, errorText) ==
  /\ calls < MaxUses
  /\ calls' = calls + 1
  /\ last' = [op |-> "match", text |-> errorText, id |-> NoId, success |-> FALSE, hit |-> 0,
              matched |-> getMatchingErrorFixes(patterns[i], errorText)]
  /\ UNCHANGED <<patterns, isDirty, disk, now, loopVars>>

\* the loop bound off by one
WhileCondition_Inclusive(n, m) == n <= m

\* while (attempt < maxAttempts)
WhileCondition(n, m) == n < m

\* if (attempt < maxAttempts) before the fix analysis
FixBudget(n, m) == n < m

\* the result returned when the token is found set
CancelledResult(n, fixes) ==
  [NoResult EXCEPT !.errors = [kind |-> "cancelled", n |-> 0, text |-> <<>>],
                   !.attempts = n, !.fixesApplied = fixes]

\* a success result that forgets the artifact path
SuccessResult_NoArtifact(r, n, fixes) ==
  [NoResult EXCEPT !.success = TRUE, !.outputPath = r.outputPath,
                   !.attempts = n, !.fixesApplied = fixes]

\* the result returned on a successful generate/build run r
SuccessResult(r, n, fixes) ==
  [NoResult EXCEPT !.success = TRUE, !.outputPath = r.outputPath, !.mpkPath = r.mpkPath,
                   !.attempts = n, !.fixesApplied = fixes]

\* the result returned after the loop: "Build failed after <attempt> attempts"
FailedResult(n, fixes) ==
  [NoResult EXCEPT !.errors = [kind |-> "failedAfter", n |-> n, text |-> <<>>],
                   !.attempts = n, !.fixesApplied = fixes]

\* execute is left by an error thrown at origin: the promise it returned rejects
ThrownResult(origin) ==
  [NoResult EXCEPT !.threw = TRUE, !.errors = [kind |-> "thrown", n |-> 0, text |-> origin]]

\* `if (!fs.existsSync(workFolder)) fs.mkdirSync(workFolder, {recursive: true})`, and
\* then the start of generator.generate
StartAttempt ==
  IF workFolder = "blocked"
  THEN /\ workFolder' = workFolder
       /\ pc' = "done"
       /\ result' = ThrownResult(<<"mkdirSync">>)
       /\ execCalls' = execCalls
  ELSE /\ workFolder' = "present"
       /\ pc' = "executing"
       /\ result' = NoResult
       /\ execCalls' = execCalls + 1

\* a loop that starts the generator without looking at the token
Loop_TokenIgnored(n, fixes, tokenSet) ==
  IF WhileCondition(n, maxAttempts')
  THEN /\ attempt' = n + 1
       /\ StartAttempt
  ELSE /\ attempt' = n
       /\ pc' = "done"
       /\ result' = FailedResult(n, fixes)
       /\ execCalls' = execCalls
       /\ workFolder' = workFolder

\* one pass from the while condition to the first await or to a return: attempt++,
\* the cancellation check, and the start of generator.generate; tokenSet is the
\* token's value at that moment
Loop(n, fixes, tokenSet) ==
  IF WhileCondition(n, maxAttempts')
  THEN /\ attempt' = n + 1
       /\ IF tokenSet
          THEN /\ pc' = "done"
               /\ result' = CancelledResult(n + 1, fixes)
               /\ execCalls' = execCalls
               /\ workFolder' = workFolder
          ELSE StartAttempt
  ELSE /\ attempt' = n
       /\ pc' = "done"
       /\ result' = FailedResult(n, fixes)
       /\ execCalls' = execCalls
       /\ workFolder' = workFolder

\* BuildLoop.execute is called with options.maxAttempts = n (0: not given) and a token
Execute(n, tokenSet) ==
  /\ pc = "idle"
  /\ maxAttempts' = (IF n = 0 THEN DefaultMaxAttempts ELSE n)
  /\ fixesApplied' = <<>>
  /\ cancelled' = tokenSet
  /\ cancelledAt' = IF tokenSet THEN "idle" ELSE "never"
  /\ consults' = 0
  /\ errors' = <<>>
  /\ Loop(0, <<>>, tokenSet)
  /\ UNCHANGED <<storeVars, now, widget, chain, considered>>

\* the user cancels while execute awaits the generator or the fix analysis
Cancel ==
  /\ pc \in {"executing", "fixing"}
  /\ ~cancelled
  /\ cancelled' = TRUE
  /\ cancelledAt' = pc
  /\ UNCHANGED <<storeVars, now, pc, maxAttempts, attempt, fixesApplied, result, execCalls,
                 consults, errors, widget, chain, considered, workFolder>>

\* generator.generate resolves with r; the run took at least a millisecond
ExecutorReturns(r) ==
  /\ pc = "executing"
  /\ widget' = r.widget
  /\ now' = now + 1
  /\ UNCHANGED <<storeVars, maxAttempts, fixesApplied, cancelled, cancelledAt, consults, chain,
                 considered>>
  /\ IF r.success
     THEN /\ pc' = "done"
          /\ result' = SuccessResult(r, attempt, fixesApplied)
          /\ UNCHANGED <<errors, attempt, execCalls, workFolder>>
     ELSE /\ errors' = r.errors
          /\ IF FixBudget(attempt, maxAttempts)
             THEN /\ pc' = "fixing"
                  /\ UNCHANGED <<result, attempt, execCalls, workFolder>>
             ELSE Loop(attempt, fixesApplied, cancelled)

\* a loop that goes round again although no fix was applied
AfterFix_NoBreak(fix) ==
  /\ fixesApplied' = (IF fix.applied THEN Append(fixesApplied, fix.description)
                                     ELSE fixesApplied)
  /\ Loop(attempt, fixesApplied', cancelled)

\* what execute does with the outcome of analyzeAndFix: record the fix and go round
\* the loop again, or break
AfterFix(fix) ==
  IF fix.applied
  THEN /\ fixesApplied' = Append(fixesApplied, fix.description)
       /\ Loop(attempt, fixesApplied', cancelled)
  ELSE /\ fixesApplied' = fixesApplied
       /\ attempt' = attempt
       /\ pc' = "done"
       /\ result' = FailedResult(attempt, fixesApplied)
       /\ execCalls' = execCalls
       /\ workFolder' = workFolder

\* analyzeAndFix resolves (or throws), and execute runs on to its next await or return
AnalyzeAndFix(ext) ==
  /\ pc = "fixing"
  /\ UNCHANGED <<now, calls, last, maxAttempts, errors, cancelled, cancelledAt>>
  /\ \E fix \in {analyzeAndFix(errors, patterns["loop"], widget, now, ext)} :
         /\ consults' = consults + 1
         /\ patterns' = [patterns EXCEPT !["loop"] = fix.errorFixes]
         /\ IF fix.touched
            THEN save("loop", fix.errorFixes, TRUE, TRUE)
            ELSE UNCHANGED <<isDirty, disk>>
         /\ widget' = fix.widget
         /\ chain' = fix.consulted
         /\ considered' = fix.considered
         /\ IF fix.threw
            THEN /\ pc' = "done"
                 /\ result' = ThrownResult(<<"tryPatternFix">>)
                 /\ UNCHANGED <<attempt, fixesApplied, execCalls, workFolder>>
            ELSE AfterFix(fix)

Next ==
  \/ \E n \in 0..MaxAttemptsBound, c \in BOOLEAN : Execute(n, c)
  \/ Cancel
  \/ \E r \in ExecutorResults(widget) : ExecutorReturns(r)
  \/ \E ext \in External : AnalyzeAndFix(ext)

Spec == Init /\ [][Next]_vars

NextStore ==
  \/ Tick
  \/ \E t \in ErrorTexts, d \in Descriptions, s \in BOOLEAN : LearnCall("chat", t, d, s, TRUE)
  \/ \E id \in PatternIds, s \in BOOLEAN : RecordCall("chat", id, s, TRUE)
  \/ \E t \in MatchTexts : MatchCall("chat", t)
  \/ Construct("chat")

SpecStore == Init /\ [][NextStore]_vars

\* the chat participant's /learn command: learnErrorFix on its own DynamicPatterns
\* instance, between two steps of a build or outside one
LearnCommand(errorText, fixDescription) == LearnCall("chat", errorText, fixDescription, TRUE, TRUE)

\* the build loop and the chat participant in one extension host
NextShared ==
  \/ Next
  \/ \E d \in Descriptions : LearnCommand(TNovel, d)

SpecShared == Init /\ [][NextShared]_vars

(***************************************************************************)
(* Properties of the pattern store                                         *)
(***************************************************************************)

(***************************************************************************)
(* Properties of the pattern store                                         *)
(***************************************************************************)
\* a store call was made on the client's instance in this step
StoreCallStep(op) == calls' = calls + 1 /\ last'.op = op

ConfidenceInRange ==
  \A i \in Instances : \A k \in 1..Len(patterns[i]) :
    patterns[i][k].confidence >= 10 /\ patterns[i][k].confidence <= 100

NudgeAsStated ==
  (calls' = calls + 1 /\ last'.hit # 0) =>
    LET p == patterns["chat"][last'.hit]
        q == patterns'["chat"][last'.hit]
    IN  IF last'.success
        THEN /\ q.confidence >= p.confidence
             /\ q.confidence = (IF p.confidence + 5 > 100 THEN 100 ELSE p.confidence + 5)
             /\ q.successCount = p.successCount + 1
             /\ q.failureCount = p.failureCount
        ELSE /\ q.confidence <= p.confidence
             /\ q.confidence = (IF p.confidence - 10 < 10 THEN 10 ELSE p.confidence - 10)
             /\ q.failureCount = p.failureCount + 1
             /\ q.successCount = p.successCount

\* C7: under any sequence of recordFixUsage and learnErrorFix calls every confidence
\* stays within [0.1, 1]; a success adds 0.05 capped at 1 and never lowers the
\* confidence, a failure subtracts 0.10 floored at 0.1 and never raises it, and each
\* call adds one to exactly the matching counter.
C7_ConfidenceNudge == []ConfidenceInRange /\ [][NudgeAsStated]_vars

\* a failure was recorded on a pattern already at the floor, and it stayed there
C7_Witness ==
  /\ last.op = "record" /\ ~last.success /\ last.hit # 0
  /\ patterns["chat"][last.hit].confidence = 10
  /\ patterns["chat"][last.hit].failureCount = 9

\* the claim's own reading of "matches an existing pattern"
MatchesText(p, errorText) ==
  \/ p.errorPattern = errorText
  \/ LET f == similarity(p.errorKeywords, extractKeywords(errorText))
     IN  10 * f[1] > 7 * f[2]

Novel(errorFixes, errorText) == \A k \in 1..Len(errorFixes) : ~MatchesText(errorFixes[k], errorText)

\* C8: learnErrorFix with success = false on an error matching no existing pattern
\* leaves the number of patterns and every pattern's fields unchanged.
C8_NoFailedPromotion ==
  [][(StoreCallStep("learn") /\ ~last'.success /\ Novel(patterns["chat"], last'.text))
         => patterns'["chat"] = patterns["chat"]]_vars

\* a failed fix for a novel error was offered to a store that holds patterns
C8_Witness ==
  /\ last.op = "learn" /\ ~last.success /\ last.hit = 0
  /\ Len(patterns["chat"]) > 0

\* C9: learnErrorFix with success = true on an error matching no existing pattern
\* appends exactly one pattern at the end, with confidence 0.7, successCount 1,
\* failureCount 0 and provenance 'learned', and changes no other pattern.
C9_LearnAppends ==
  [][(StoreCallStep("learn") /\ last'.success /\ Novel(patterns["chat"], last'.text))
         => LET old == patterns["chat"]
                new == patterns'["chat"]
            IN  /\ Len(new) = Len(old) + 1
                /\ SubSeq(new, 1, Len(old)) = old
                /\ new[Len(new)].confidence = 70
                /\ new[Len(new)].successCount = 1
                /\ new[Len(new)].failureCount = 0
                /\ new[Len(new)].source = "learned"]_vars

\* Scenario B: one successful learn on the emptied store
C9_Witness ==
  /\ last.op = "learn" /\ last.success /\ last.hit = 0
  /\ Len(patterns["chat"]) = 1
  /\ patterns["chat"][1].source = "learned"

\* C10: when some existing pattern has the identical signature or keyword similarity
\* above 0.7, learnErrorFix updates the first such pattern as recordFixUsage updates
\* a pattern (nudge, counter, timestamp) and appends nothing, whatever success is.
C10_LearnUpdatesFirstMatch ==
  [][(StoreCallStep("learn") /\ ~Novel(patterns["chat"], last'.text))
         => LET old == patterns["chat"]
                t == last'.text
                k == CHOOSE j \in 1..Len(old) :
                       MatchesText(old[j], t) /\ \A h \in 1..(j - 1) : ~MatchesText(old[h], t)
            IN  patterns'["chat"] =
                  [old EXCEPT ![k] = recordFixUsage(<<old[k]>>, old[k].id, last'.success, now)[1]]]_vars

\* a learn call hit a pattern that is not the only one matching: an earlier learned
\* pattern is updated although a later one matches as well
C10_Witness ==
  /\ last.op = "learn" /\ last.hit # 0
  /\ \E j \in (last.hit + 1)..Len(patterns["chat"]) : MatchesText(patterns["chat"][j], last.text)

\* the claim's own score: 10 for the signature as an exact substring, 2 per keyword
\* found case-insensitively, times confidence (hundredths) times (1 + successCount/10)
\* (tenths)
FinalScore(p, errorText) ==
  LET signature == IF includes(errorText, p.errorPattern) THEN 10 ELSE 0
      found == { k \in 1..Len(p.errorKeywords) :
                   includes(toLowerCase(errorText), toLowerCase(p.errorKeywords[k])) }
  IN  (signature + 2 * Cardinality(found)) * p.confidence * (10 + p.successCount)

C12_MatchStable ==
  [][StoreCallStep("match")
       => LET store == patterns["chat"]
              got == last'.matched
          IN  \A a, b \in 1..Len(got) :
                (a < b /\ FinalScore(store[got[a]], last'.text)
                            = FinalScore(store[got[b]], last'.text))
                  => got[a] < got[b]]_vars

\* a match that returned two patterns with the same final score
C12_Witness ==
  /\ last.op = "match"
  /\ \E a, b \in 1..Len(last.matched) :
       /\ a < b
       /\ FinalScore(patterns["chat"][last.matched[a]], last.text)
            = FinalScore(patterns["chat"][last.matched[b]], last.text)

(***************************************************************************)
(* Properties of the build loop                                            *)
(***************************************************************************)
\* C1: with maxAttempts = N >= 1, an executor that fails every time and a fix chain
\* that reports an applied fix every time it is consulted, execute invokes the
\* executor exactly N times, never N + 1, and returns a failure result.
C1_BoundedRetries ==
  /\ pc # "idle" => execCalls <= maxAttempts
  /\ (pc = "done" /\ ~cancelled /\ ~result.success /\ ~result.threw
        /\ Len(fixesApplied) = consults)
       => (execCalls = maxAttempts /\ result.errors.kind = "failedAfter"
             /\ result.attempts = maxAttempts)

\* three failed runs, a fix applied after the first and after the second
C1_Witness ==
  /\ pc = "done" /\ ~cancelled /\ ~result.success
  /\ maxAttempts = 3 /\ execCalls = 3
  /\ consults = 2 /\ Len(fixesApplied) = 2

\* C2: when after failed attempt k < maxAttempts no strategy reports an applied fix,
\* execute ends after attempt k: the executor is not invoked a (k+1)-th time and the
\* remaining attempts are not consumed.
C2_EarlyExhaustion ==
  /\ [][(pc = "fixing" /\ consults' = consults + 1 /\ fixesApplied' = fixesApplied)
          => (pc' = "done" /\ execCalls' = execCalls /\ attempt' = attempt
                /\ attempt < maxAttempts)]_vars
  /\ [][pc = "done" => (pc' = "done" /\ execCalls' = execCalls /\ attempt' = attempt)]_vars

\* no fix after attempt 1 of a 3-attempt budget: one executor run, nothing applied
C2_Witness ==
  /\ pc = "done" /\ maxAttempts = 3
  /\ consults = 1 /\ fixesApplied = <<>>
  /\ execCalls = 1 /\ result.attempts = 1 /\ ~result.threw

\* C3: as soon as the executor reports success on attempt k, execute returns a success
\* result with the executor's output path and artifact path and the fixes applied so
\* far in order; after it no fix strategy is consulted, the pattern store is not
\* changed and the executor is not invoked again.
C3_SuccessReturnsAtOnce ==
  /\ [][\A r \in ExecutorResults(widget) :
          (ExecutorReturns(r) /\ r.success)
            => /\ pc' = "done" /\ result'.success
               /\ result'.outputPath = r.outputPath /\ result'.mpkPath = r.mpkPath
               /\ result'.fixesApplied = fixesApplied /\ result'.attempts = attempt
               /\ UNCHANGED <<patterns, disk, consults, execCalls>>]_vars
  /\ [][(pc = "done" /\ result.success)
          => UNCHANGED <<pc, result, patterns, disk, consults, execCalls>>]_vars

\* success on the third attempt, after two fixes, with an artifact
C3_Witness ==
  /\ pc = "done" /\ result.success
  /\ result.attempts = 3 /\ Len(result.fixesApplied) = 2
  /\ result.mpkPath # "undefined"

\* C4: when cancellation is requested before the call or while the executor runs
\* attempt k, execute returns a cancelled outcome, distinct from the exhausted one
\* (an in-flight run that succeeds still returns success), and after the cancellation
\* no attempt is started, no fix strategy is consulted, nothing is appended to
\* fixesApplied and the pattern store is not changed.
C4_CancelRecordsNoFix ==
  /\ []((pc = "done" /\ cancelledAt \in {"idle", "executing"} /\ ~result.success)
          => result.errors.kind = "cancelled")
  /\ [][(cancelledAt \in {"idle", "executing"})
          => (/\ pc' # "fixing"
              /\ consults' = consults
              /\ fixesApplied' = fixesApplied
              /\ patterns' = patterns
              /\ disk' = disk
              /\ execCalls' = execCalls)]_vars

\* C5: once the token is set the executor is never started again within the call, and
\* a generate run in flight when the token is set runs to completion.
C5_CooperativeCancel ==
  /\ [][cancelled' => execCalls' <= execCalls]_vars
  /\ [][(pc = "executing" /\ ~cancelled /\ cancelled') => pc' = "executing"]_vars
  /\ [][(pc = "executing" /\ pc' # "executing") => (now' = now + 1 /\ pc' \in {"done", "fixing"}
          /\ (pc' = "done" => result'.errors.kind # "cancelled"))]_vars

\* the token was set while generate was running, and generate went on to succeed
C5_Witness ==
  pc = "done" /\ cancelledAt = "executing" /\ result.success /\ execCalls = 2

\* C6: when execute ends without success after maxAttempts attempts, the returned
\* result holds the diagnostic text of the failed attempts, the ordered fix
\* descriptions and the attempt count.
C6_ExhaustedCarriesDiagnostics ==
  (pc = "done" /\ ~result.success /\ ~result.threw /\ result.errors.kind = "failedAfter"
     /\ result.attempts = maxAttempts)
    => (result.errors.text = errors /\ result.fixesApplied = fixesApplied
          /\ result.attempts = execCalls)

\* the nucleus fixes of the store that prepend a fixed text (file-edit, empty search)
PrependFixes(errorFixes) ==
  { k \in 1..Len(errorFixes) :
      /\ errorFixes[k].fix.type = "file-edit"
      /\ errorFixes[k].fix.file # "undefined"
      /\ errorFixes[k].fix.search = ""
      /\ errorFixes[k].fix.replace \notin {"", "undefined"} }

\* C13: applying the same nucleus file-edit fix with empty search and a fixed replace
\* text to the same file twice leaves the replace text in the file exactly once; the
\* second application changes nothing and reports not-applied.
C13_PrependIdempotent ==
  widget.src =>
    \A k \in PrependFixes(patterns["loop"]) :
      LET pattern == patterns["loop"][k]
          once == applyNucleusFix(pattern, widget)
          twice == applyNucleusFix(pattern, once[2])
      IN  /\ Occurrences(once[2].tsx, pattern.fix.replace) = 1
          /\ twice = <<FALSE, once[2]>>

\* the loop applied the builtin React import through the nucleus, the build failed
\* again on the same file, and the nucleus tried the same fix a second time: one
\* success and one failure are on the pattern's record, one import is in the file
C13_Witness ==
  /\ consults = 2 /\ Len(fixesApplied) >= 1
  /\ fixesApplied[1] = <<"[NUCLEUS]", "Add missing React import">>
  /\ \E k \in PrependFixes(patterns["loop"]) :
       /\ patterns["loop"][k].successCount = 11
       /\ patterns["loop"][k].failureCount = 1
       /\ Occurrences(widget.tsx, patterns["loop"][k].fix.replace) = 1

\* C14: starting from the builtin store, when attempt 1 fails with the 'missing script:
\* build' diagnostic and a fix is applied, then at attempt 2 the package manifest holds
\* the build and dev scripts and the store holds a pattern of provenance 'learned' for
\* that error signature.
C14_ScriptFixIsLearned ==
  [][(/\ pc = "fixing" /\ attempt = 1 /\ errors = TScript
      /\ patterns["loop"] = getDefaultPatterns(0)
      /\ Len(fixesApplied') = 1)
       => (/\ widget'.pkg = "ok" /\ BuildScripts \subseteq widget'.scripts
           /\ \E k \in 1..Len(patterns'["loop"]) :
                /\ patterns'["loop"][k].source = "learned"
                /\ MatchesText(patterns'["loop"][k], errors))]_vars

\* C15: loading the store never fails the caller: when the patterns file is absent,
\* unreadable or malformed, the store is the builtin default patterns and nothing is
\* thrown.
C15_LoadFallsBack ==
  [][(StoreCallStep("load") /\ (~disk.exists \/ disk.content # "document"))
       => patterns'["chat"] = getDefaultPatterns(now)]_vars

\* a store was constructed over a file that exists and is no document
C15_Witness ==
  /\ last.op = "load"
  /\ disk.exists /\ disk.content \in {"unreadable", "malformed", "incomplete"}
  /\ patterns["chat"] = getDefaultPatterns(now)

\* C16: the store is write-through: after every recordFixUsage or learnErrorFix call
\* that changes a pattern (its write going through) the persisted document equals
\* the in-memory store and the dirty flag is clear.
C16_WriteThrough ==
  [][((StoreCallStep("learn") \/ StoreCallStep("record")) /\ patterns'["chat"] # patterns["chat"])
       => (/\ disk' = [exists |-> TRUE, content |-> "document",
                       errorFixes |-> patterns'["chat"]]
           /\ ~isDirty'["chat"])]_vars

\* the first mutation of a store that had no file behind it: a recorded outcome, and
\* the file now holds the store
C16_Witness ==
  /\ last.op = "record" /\ last.hit # 0
  /\ disk = [exists |-> TRUE, content |-> "document", errorFixes |-> patterns["chat"]]
  /\ patterns["chat"][last.hit].source = "builtin"
  /\ patterns["chat"][last.hit].failureCount + patterns["chat"][last.hit].successCount = 6
  /\ ~isDirty["chat"]

\* the ids held by a store
IdsOf(errorFixes) == { errorFixes[k].id : k \in 1..Len(errorFixes) }

\* C17: no store operation removes a fix pattern: across getMatchingErrorFixes,
\* recordFixUsage, learnErrorFix and save the ids in a store only grow, and a pattern
\* whose confidence is at the floor is still returned by getMatchingErrorFixes when
\* it matches.
C17_NeverDeleted ==
  /\ [][(StoreCallStep("match") \/ StoreCallStep("learn") \/ StoreCallStep("record"))
          => \A i \in Instances :
               /\ IdsOf(patterns[i]) \subseteq IdsOf(patterns'[i])
               /\ Len(patterns[i]) <= Len(patterns'[i])]_vars
  /\ [][StoreCallStep("match")
          => \A k \in 1..Len(patterns["chat"]) :
               (patterns["chat"][k].confidence = 10
                  /\ FinalScore(patterns["chat"][k], last'.text) # 0)
                 => k \in Range(last'.matched)]_vars

\* a match returned a pattern that had decayed to the floor
C17_Witness ==
  /\ last.op = "match"
  /\ \E a \in 1..Len(last.matched) : patterns["chat"][last.matched[a]].confidence = 10

\* C18: an error raised while a fix strategy applies a fix (a missing or unreadable
\* file, a malformed package.json, an unparseable cached fix or AI response) is caught
\* inside the strategy and reported as not-applied; it never propagates out of
\* BuildLoop.execute, which therefore always returns a result.
C18_ErrorsContained == pc = "done" /\ result.threw => result.errors.text # <<"tryPatternFix">>

\* the order in which the claim says the strategies are consulted
StatedOrder == <<"nucleus", "knowledge", "heuristic", "generative">>

\* the strategies of the last consultation that reported an applied fix
AppliedIn(consultation) == { k \in 1..Len(consultation) : consultation[k].applied }

ChainInOrder ==
  /\ Len(chain) <= Len(StatedOrder)
  /\ \A k \in 1..Len(chain) :
       /\ chain[k].strategy = StatedOrder[k]
       /\ \A j \in 1..(k - 1) : ~chain[j].applied
  /\ Cardinality(AppliedIn(chain)) <= 1

OneFixPerConsultation ==
  consults' = consults + 1
    => /\ chain' # <<>>
       /\ Len(fixesApplied') = Len(fixesApplied) + Cardinality(AppliedIn(chain'))
       /\ Len(fixesApplied') <= Len(fixesApplied) + 1

\* C19: the fix strategies are consulted in the fixed order nucleus, knowledge cache,
\* heuristic, generative; a strategy is consulted only if every earlier one reported
\* not-applied, so the chain stops at the first applied fix, and one consultation of
\* the chain adds at most one fix (that of the strategy that applied) to fixesApplied.
C19_ChainOrder == []ChainInOrder /\ [][OneFixPerConsultation]_vars

\* the heuristic strategy applied its fix after the nucleus and the knowledge cache
\* had both declined, and the generative strategy was not consulted
C19_Witness ==
  /\ Len(chain) = 3
  /\ ~chain[1].applied /\ ~chain[2].applied /\ chain[3].applied
  /\ Len(fixesApplied) = 1

\* C20: the nucleus strategy never attempts a pattern whose confidence is below 0.7
\* at the moment the loop comes to it: applyNucleusFix is not called for it, no file
\* of the widget is edited and no outcome is recorded in the store on its turn.
C20_LowConfidenceSkipped ==
  \A k \in 1..Len(considered) :
    considered[k].confidence < NucleusThreshold
      => /\ ~considered[k].attempted
         /\ ~considered[k].edited
         /\ ~considered[k].recorded

\* the nucleus step came to a matching pattern below 0.7 and passed it over, after it
\* had attempted a pattern it trusts
C20_Witness ==
  \E j, k \in 1..Len(considered) :
    /\ j < k
    /\ considered[j].attempted
    /\ considered[k].confidence < NucleusThreshold
    /\ ~considered[k].attempted

\* the successes credited in a store: one per learned pattern and per recorded success
Credits(errorFixes) == [k \in 1..Len(errorFixes) |-> errorFixes[k].successCount]

\* C21: the build loop feeds a fix into the pattern store as learned, or credits a
\* pattern with a success, only after a later attempt's build was seen to succeed: the
\* consultation of the chain that applies a fix, which comes before that attempt, adds
\* no pattern and raises no success count.
C21_LearnsOnlyAfterSuccess ==
  [][consults' = consults + 1 => Credits(patterns'["loop"]) = Credits(patterns["loop"])]_vars

\* C22: the store is written to disk only when something changed: a learn or
\* recordFixUsage call that leaves every pattern of the store as it was (an unknown
\* id, a failed fix for a novel error) performs no write of the patterns file.
C22_NoRedundantWrite ==
  [][((StoreCallStep("learn") \/ StoreCallStep("record")) /\ patterns'["chat"] = patterns["chat"])
       => disk' = disk]_vars

\* C23: an infrastructure failure during an attempt (the work folder cannot be
\* created, the executor itself throws) fails only that attempt: execute does not
\* abort by throwing, it returns a result.
C23_InfrastructureFailureContained ==
  pc = "done" /\ result.threw => result.errors.text # <<"mkdirSync">>

\* the patterns a persisted document holds, by id and error pattern
Persisted(d) ==
  IF d.exists /\ d.content = "document"
  THEN { [id |-> d.errorFixes[k].id, errorPattern |-> d.errorFixes[k].errorPattern] :
           k \in 1..Len(d.errorFixes) }
  ELSE {}

\* C24: within one process, a pattern persisted by a learn or recordFixUsage call is
\* never lost from the patterns file by a later store mutation, whichever of the two
\* DynamicPatterns instances (the chat participant's, the build loop's) makes it.
C24_PersistedPatternsKept == [][Persisted(disk) \subseteq Persisted(disk')]_vars

\* C25: an edit a fix strategy made in place after a failed attempt is still in effect
\* when the next attempt compiles: the executor run of that attempt leaves the
\* snippets the widget source held and the scripts the manifest held where they were.
C25_FixSurvivesRetry ==
  [][(pc = "executing" /\ fixesApplied # <<>> /\ pc' # "executing")
       => (/\ Range(widget.tsx) \subseteq Range(widget'.tsx)
           /\ widget.scripts \subseteq widget'.scripts)]_vars

\* C26: every attempt in 1..maxAttempts that fails and is not cancelled, the last one
\* included, gets one consultation of the fix strategy chain against its diagnostic
\* text: when the executor returns without cancellation, execute ends there only on a
\* success and otherwise goes on to analyzeAndFix.
C26_EveryFailureConsulted ==
  [][(pc = "executing" /\ pc' # "executing" /\ ~cancelled)
       => (IF pc' = "done" THEN result'.success
           ELSE pc' = "fixing" /\ errors' # <<>>)]_vars

\* C27: whenever a fix strategy reports applied = true it changed something: a file
\* of the widget folder differs from before, or a dependency was installed; no retry
\* is spent on an unchanged project.
C27_AppliedMeansChanged ==
  [][(consults' = consults + 1 /\ Len(fixesApplied') > Len(fixesApplied))
       => (\/ widget' # widget
           \/ fixesApplied'[Len(fixesApplied')] = <<"", "Installed missing module">>)]_vars

\* C28: in every result execute returns (success, cancelled, early stop, exhausted)
\* the attempts field is the number of executor invocations of that call, and
\* fixesApplied holds at most attempts - 1 entries, in the order the fixes were applied.
C28_AttemptsCountExecutorRuns ==
  (pc = "done" /\ ~result.threw)
    => /\ result.attempts = execCalls
       /\ Len(result.fixesApplied) <= Max(result.attempts - 1, 0)
       /\ result.fixesApplied = fixesApplied

\* whether the patterns of a store have pairwise distinct ids
DistinctIds(errorFixes) ==
  \A j, k \in 1..Len(errorFixes) : j # k => errorFixes[j].id # errorFixes[k].id

\* C29: after any sequence of learn calls, two within one clock millisecond included,
\* the patterns of the store have pairwise distinct ids: a learn call on a store with
\* distinct ids leaves a store with distinct ids.
C29_LearnedIdsDistinct ==
  [][(StoreCallStep("learn") /\ DistinctIds(patterns["chat"]))
       => DistinctIds(patterns'["chat"])]_vars

\* the descriptions under which analyzeAndFix passes a fix to learnErrorFix
LoopDescriptions ==
  {"known fix", "Installed missing module", "Added missing React imports",
   "Added missing build scripts to package.json"}

\* a pattern the build loop appended through learnErrorFix
LoopLearned(p) == p.source = "learned" /\ p.fix.description \in LoopDescriptions

AppendedAreManual ==
  \A i \in Instances : \A k \in 1..Len(patterns[i]) :
    LoopLearned(patterns[i][k]) => patterns[i][k].fix.type = "manual"

\* the turns of the nucleus loop that attempted a pattern the build loop had appended
LearnedAttempts(turns) ==
  { k \in 1..Len(turns) : turns[k].attempted /\ LoopLearned(turns[k].pattern) }

AttemptFails(turn) ==
  /\ ~turn.applied /\ ~turn.edited
  /\ turn.after.failureCount = turn.pattern.failureCount + 1

AttemptFailsBelowThreshold ==
  \A k \in LearnedAttempts(considered) :
    /\ AttemptFails(considered[k])
    /\ (considered[k].pattern.failureCount = 0
          => considered[k].after.confidence < NucleusThreshold)

\* C30 as stated: every pattern the build loop appends through learn has fix type
\* 'manual'; whenever the nucleus strategy attempts such a pattern it reports
\* not-applied and records a failure, and the pattern's confidence is below the 0.7
\* threshold after its first nucleus attempt.
C30_Original == AppendedAreManual /\ AttemptFailsBelowThreshold

AttemptFailsAndLowers ==
  \A k \in LearnedAttempts(considered) :
    /\ AttemptFails(considered[k])
    /\ considered[k].after.confidence =
         Max(ConfidenceFloor, considered[k].pattern.confidence - FailureNudge)
    /\ (considered[k].pattern.successCount < 3
          => considered[k].after.confidence < NucleusThreshold)

\* C30: every pattern the build loop appends through learn has fix type 'manual';
\* whenever the nucleus strategy attempts such a pattern it reports not-applied and
\* records a failure that lowers the pattern's confidence by 0.1 (not below the
\* floor); the confidence is below the 0.7 threshold after the attempt unless learn
\* calls had credited the pattern with two more successes before it.
C30_LoopLearnedNeverApplied == AppendedAreManual /\ AttemptFailsAndLowers

\* the nucleus attempted a pattern the loop had appended one consultation before, and
\* left it below the threshold
C30_Witness ==
  \E k \in LearnedAttempts(considered) :
    /\ considered[k].pattern.confidence = LearnedConfidence
    /\ considered[k].pattern.failureCount = 0
    /\ considered[k].after.confidence < NucleusThreshold
    /\ consults = 2

====
